---- MODULE Spec2Model ----
(***************************************************************************)
(* A model of wiglebot.py: the command router (WigleBot.message_callback), *)
(* the six WiGLE API operations and the formatters.                        *)
(*                                                                         *)
(* Text that the program parses or compares (message bodies, user and      *)
(* group names) is a sequence of one-character strings, so that strip,     *)
(* split, lower and join are computed character by character.  Text that   *)
(* the program only builds (URLs, error messages, lines of a reply) is a   *)
(* TLA+ string built with \o.                                              *)
(***************************************************************************)
EXTENDS Integers, Sequences, FiniteSets, TLC

VARIABLES
    bot,    \* the WigleBot object's own fields
    pc,     \* pc[t]: where handler task t stands in message_callback
    ev,     \* ev[t]: the (room, event) pair task t was called with
    loc,    \* loc[t]: message_callback's local variables
    resp,   \* resp[t]: the upstream response task t consumed last
    log,    \* every outbound operation, in the order it was issued
    calls   \* how many calls of message_callback have returned, up to MaxCalls

vars == <<bot, pc, ev, loc, resp, log, calls>>

-----------------------------------------------------------------------------
(* Bounds of the model.                                                    *)

\* longest ranking / member / standings list an upstream body carries
MaxList == 11
\* most entries of such a list that are locked ("L") or "anonymous"
MaxMarked == 2
\* the earlier calls of message_callback that are told apart: none, one, ...,
\* MaxCalls or more
MaxCalls == 1

-----------------------------------------------------------------------------
(* Characters and strings.                                                 *)

UpperChars == <<"A","B","C","D","E","F","G","H","I","J","K","L","M",
                "N","O","P","Q","R","S","T","U","V","W","X","Y","Z">>
LowerChars == <<"a","b","c","d","e","f","g","h","i","j","k","l","m",
                "n","o","p","q","r","s","t","u","v","w","x","y","z">>

\* str.lower(), one character
LowerChar(c) ==
    IF \E i \in 1..26 : UpperChars[i] = c
    THEN LowerChars[CHOOSE i \in 1..26 : UpperChars[i] = c]
    ELSE c

\* str.lower()
Lower(s) == [i \in 1..Len(s) |-> LowerChar(s[i])]

\* the characters str.strip() and str.split() treat as whitespace
IsSpace(c) == c \in {" ", "\t", "\n"}

\* str.startswith(p)
StartsWith(s, p) == Len(s) >= Len(p) /\ SubSeq(s, 1, Len(p)) = p

RECURSIVE LStrip(_)
LStrip(s) == IF s # <<>> /\ IsSpace(Head(s)) THEN LStrip(Tail(s)) ELSE s

RECURSIVE RStrip(_)
RStrip(s) ==
    IF s # <<>> /\ IsSpace(s[Len(s)]) THEN RStrip(SubSeq(s, 1, Len(s) - 1)) ELSE s

\* str.strip()
Strip(s) == RStrip(LStrip(s))

RECURSIVE SplitFrom(_, _, _)
SplitFrom(s, cur, acc) ==
    IF s = <<>>
    THEN IF cur = <<>> THEN acc ELSE Append(acc, cur)
    ELSE IF IsSpace(Head(s))
         THEN SplitFrom(Tail(s), <<>>, IF cur = <<>> THEN acc ELSE Append(acc, cur))
         ELSE SplitFrom(Tail(s), Append(cur, Head(s)), acc)

\* str.split() with no separator: the maximal runs of non-whitespace
Split(s) == SplitFrom(s, <<>>, <<>>)

RECURSIVE JoinWords_NoSpace(_)
\* JoinWords with nothing between the words
JoinWords_NoSpace(ws) == IF ws = <<>> THEN <<>> ELSE ws[1] \o JoinWords_NoSpace(Tail(ws))

RECURSIVE JoinWords(_)
\* " ".join(args)
JoinWords(ws) ==
    IF ws = <<>> THEN <<>>
    ELSE IF Len(ws) = 1 THEN ws[1]
    ELSE ws[1] \o <<" ">> \o JoinWords(Tail(ws))

RECURSIVE Str(_)
\* the characters of s as one string, as an f-string interpolates it
Str(s) == IF s = <<>> THEN "" ELSE Head(s) \o Str(Tail(s))

Digits == <<"0","1","2","3","4","5","6","7","8","9">>

RECURSIVE DecStr(_)
\* str(n) of a natural number
DecStr(n) == IF n < 10 THEN Digits[n + 1] ELSE DecStr(n \div 10) \o Digits[(n % 10) + 1]

\* three digits, zero padded
Pad3(n) == Digits[(n \div 100) + 1] \o Digits[((n \div 10) % 10) + 1] \o Digits[(n % 10) + 1]

RECURSIVE Commas(_)
\* "{:,}".format(n) of a natural number
Commas(n) == IF n < 1000 THEN DecStr(n) ELSE Commas(n \div 1000) \o "," \o Pad3(n % 1000)

\* Ordinal with "th" after every number
Ordinal_AlwaysTh(i) == DecStr(i) \o "th"

\* inflect.engine().ordinal(i) of a positive integer
Ordinal(i) ==
    DecStr(i) \o
    (IF (i % 100) \in {11, 12, 13} THEN "th"
     ELSE IF i % 10 = 1 THEN "st"
     ELSE IF i % 10 = 2 THEN "nd"
     ELSE IF i % 10 = 3 THEN "rd"
     ELSE "th")

\* dict.get / "key" in dict, on a JSON object held as a function
HasKey(d, k) == k \in DOMAIN d

Min(a, b) == IF a < b THEN a ELSE b

-----------------------------------------------------------------------------
(* The program's literals.                                                 *)

\* config["matrix_user_id"], the identity the client logs in with
BotUserId == "@wiglebot:hs"

\* WigleBot.command_prefix
CommandPrefix == <<"!">>

UnknownText == "Unknown command. Type !help for available commands."

\* get_help_message(); the source quotes each command in backquotes, a
\* character a TLA+ string cannot hold
HelpText ==
    "**Command List**\n" \o
    "!user <username> - Get stats for a WiGLE user.\n" \o
    "!grouprank - Get WiGLE group rankings.\n" \o
    "!userrank <groupname> - Get WiGLE user rankings for a group.\n" \o
    "!alltime - Get WiGLE All-Time user rankings.\n" \o
    "!monthly - Get WiGLE monthly user rankings.\n" \o
    "!help - Shows this help message.\n"

ApiBase == "https://api.wigle.net/api/v2/"

\* the literal the standings filters compare userName with
Anonymous == <<"a","n","o","n","y","m","o","u","s">>

\* a reply: the first line (or the whole of a one-line message) and the lines
\* a formatter appended to it, each a string
Plain(s) == [head |-> s, lines |-> <<>>]

-----------------------------------------------------------------------------
(* The inputs: rooms, senders, message bodies, the clock.                  *)

Tasks == {1, 2}

Rooms == {"!r1:hs", "!r2:hs"}

Senders == {BotUserId, "@eve:hs"}

\* int(time.time()) at the moment a request is built
Timestamps == {1700000000}

W_al == <<"a","l">>
W_Al == <<"A","l">>
W_bo == <<"b","o">>
SP == <<" ">>

V_user      == <<"u","s","e","r">>
V_grouprank == <<"g","r","o","u","p","r","a","n","k">>
V_userrank  == <<"u","s","e","r","r","a","n","k">>
V_alltime   == <<"a","l","l","t","i","m","e">>
V_monthly   == <<"m","o","n","t","h","l","y">>
V_help      == <<"h","e","l","p">>
V_xyz       == <<"x","y","z">>

\* the same verbs as a user may type them
V_USER      == <<"U","S","E","R">>
V_UserRank  == <<"U","s","e","r","R","a","n","k">>
V_AllTime   == <<"A","l","l","T","i","m","e">>
V_GroupRank == <<"G","r","o","u","p","R","a","n","k">>
V_HELP      == <<"H","E","L","P">>
V_users     == <<"u","s","e","r","s">>

\* bodies that do not start with the prefix
UnprefixedBodies ==
    { <<>>, V_help, SP \o CommandPrefix \o V_help, V_user \o SP \o W_al,
      <<"?">> \o V_monthly }

\* bodies that start with the prefix
PrefixedBodies ==
    { CommandPrefix \o b : b \in
        { <<>>, SP, SP \o SP,
          V_help, SP \o V_help, V_HELP, V_help \o SP \o W_al,
          V_xyz, V_users \o SP \o W_al, V_xyz \o SP \o W_al \o SP \o W_bo,
          V_user, V_user \o SP, V_userrank, V_UserRank \o SP \o SP,
          V_user \o SP \o W_al, V_USER \o SP \o W_Al,
          V_user \o SP \o SP \o W_bo \o SP, V_user \o SP \o W_al \o SP \o W_bo,
          V_grouprank, V_GroupRank \o SP \o W_al,
          V_userrank \o SP \o W_al, V_userrank \o SP \o W_Al \o SP \o W_bo,
          V_userrank \o SP \o SP \o W_al \o SP \o SP \o SP \o W_bo \o SP,
          V_UserRank \o SP \o W_bo,
          V_alltime, V_AllTime \o SP \o W_al,
          V_monthly, SP \o V_monthly } }

Bodies == UnprefixedBodies \cup PrefixedBodies

-----------------------------------------------------------------------------
(* The upstream: what a GET may resolve to.                                *)
(* A JSON object is a function from its keys; an absent key is outside its *)
(* domain.  A response is a transport fault, or a status with a body that  *)
(* is invalid JSON, an array or an object.                                 *)

EmptyObj == [k \in {} |-> TRUE]

\* an optional key of a JSON object
Opt(k, S) == {EmptyObj} \cup { k :> x : x \in S }

\* the sets of at most MaxMarked positions among 1..n
Marks(n) == { M \in SUBSET (1..n) : Cardinality(M) <= MaxMarked }

RECURSIVE DecChars(_)
DecChars(n) ==
    IF n < 10 THEN <<Digits[n + 1]>> ELSE DecChars(n \div 10) \o <<Digits[(n % 10) + 1]>>

\* the name and the count of the entry an upstream list holds at position i
PosName(i) == <<"n">> \o DecChars(i)
PosCount(i) == (20 - i) * 70707

\* user names and group names the upstream knows
UpUserNames == { W_al, <<"A","L">>, W_bo }
NamedGroups ==
    { [groupName |-> W_al, groupId |-> "id-a", discovered |-> 1234567],
      [groupName |-> <<"A","l"," ","b","o">>, groupId |-> "id-b", discovered |-> 98765],
      [groupName |-> <<"A","L"," ","B","O">>, groupId |-> "id-c", discovered |-> 999] }

FullStats(n) ==
    [ userName |-> n, prevRank |-> 1300, prevMonthRank |-> 90,
      eventMonthCount |-> 12345, eventPrevMonthCount |-> 999,
      discoveredWiFiGPS |-> 1234567, discoveredWiFiGPSPercent |-> "0.12345",
      discoveredWiFi |-> 2345678, discoveredCellGPS |-> 4321,
      discoveredCell |-> 5432, discoveredBtGPS |-> 100200, discoveredBt |-> 0,
      totalWiFiLocations |-> 34567890,
      last  |-> <<"2","0","2","4","0","3","0","4","-","1","5","3","0","0","0">>,
      first |-> <<"2","0","1","2","1","1","2","3","-","0","0","0","0","0","0">> ]

\* the statistics objects of a user-stats body
StatsObjects ==
    { [prevRank |-> 1300] }
    \cup { FullStats(n) : n \in UpUserNames }
    \cup { [userName |-> n] : n \in UpUserNames }

\* the bodies of stats/user
UserObjects ==
    { s @@ st @@ top @@ img :
        s \in Opt("success", BOOLEAN),
        st \in Opt("statistics", StatsObjects),
        top \in { EmptyObj, [user |-> W_al, rank |-> 1234, monthRank |-> 88] },
        img \in Opt("imageBadgeUrl", {"", "https://wigle.net/bi/x.png"}) }

\* the group lists of a stats/group body
GroupLists ==
    { [i \in 1..n |-> [groupName |-> PosName(i), groupId |-> "id-" \o DecStr(i),
                       discovered |-> PosCount(i)]] : n \in 0..MaxList }
    \cup { <<g>> : g \in NamedGroups }
    \cup { <<g, h>> : g \in NamedGroups, h \in NamedGroups }
    \cup { <<[groupId |-> "id-x", discovered |-> 5]>>,
           <<[groupName |-> W_al, groupId |-> "id-a"]>> }

\* the bodies of stats/group
GroupObjects ==
    { s @@ g @@ m :
        s \in Opt("success", BOOLEAN),
        g \in Opt("groups", GroupLists),
        m \in Opt("message", {"too many queries today"}) }

\* the status of the member at position i: locked ones carry an "L"
MemberStatus(i, locked) ==
    IF locked THEN (IF i % 2 = 0 THEN <<"L">> ELSE <<"A","L">>)
    ELSE (IF i % 3 = 0 THEN <<>> ELSE IF i % 3 = 1 THEN <<"A">> ELSE <<"l">>)

\* the member lists of a group/groupMembers body
MemberLists ==
    UNION { { [i \in 1..n |-> [username |-> PosName(i), discovered |-> PosCount(i),
                                status |-> MemberStatus(i, i \in M)]] :
                M \in Marks(n) } : n \in 0..MaxList }
    \cup { <<[username |-> W_al, discovered |-> 7]>>,
           <<[username |-> W_al, status |-> <<"A">>]>> }

\* the bodies of group/groupMembers
MemberObjects ==
    { EmptyObj, [success |-> TRUE] }
    \cup { s @@ [users |-> l] : s \in Opt("success", {TRUE}), l \in MemberLists }

\* the standings lists of a stats/standings body
StandingLists ==
    UNION { { [i \in 1..n |-> [userName |-> IF i \in M THEN Anonymous ELSE PosName(i),
                                discoveredWiFiGPS |-> PosCount(i),
                                eventMonthCount |-> PosCount(i) \div 1000]] :
                M \in Marks(n) } : n \in 0..MaxList }
    \cup { <<[userName |-> <<"A">> \o Tail(Anonymous), discoveredWiFiGPS |-> 5,
              eventMonthCount |-> 5]>>,
           <<[discoveredWiFiGPS |-> 5, eventMonthCount |-> 5]>>,
           <<[userName |-> W_al]>> }

\* the bodies of stats/standings
StandingObjects ==
    { s @@ r : s \in Opt("success", BOOLEAN), r \in Opt("results", StandingLists) }

\* a request that fails below HTTP: the 60 s total timeout expires (the
\* exception's text is empty), or the connection fails
TransportFaults == { [kind |-> "timeout"], [kind |-> "connfail"] }

HttpErrors == { [kind |-> "http", status |-> st] : st \in {404, 500} }

\* the 200 responses whose body is one of the objects of O
Http200(O) ==
    { [kind |-> "http", status |-> 200, json |-> j] :
        j \in { [t |-> "invalid"], [t |-> "array", len |-> 0], [t |-> "array", len |-> 1] }
              \cup { [t |-> "object", v |-> o] : o \in O } }

Responses(O) == TransportFaults \cup HttpErrors \cup Http200(O)

-----------------------------------------------------------------------------
(* The API operations.  Each fetch_X is a try block around the request and *)
(* the reading of the response: X_try is the block, which returns a value  *)
(* or raises, and fetch_X is the block with its except clause.             *)

Return(v) == [raised |-> FALSE, ret |-> v]
Raise(msg) == [raised |-> TRUE, err |-> msg]

\* the dictionary every operation returns for a failure
Failure(msg) == [success |-> FALSE, message |-> msg]

\* fetch_user_rank's None
None == [t |-> "none"]

\* str(e) of the exception session.get raises for a transport fault
TransportErr(r) ==
    IF r.kind = "timeout" THEN ""
    ELSE "Cannot connect to host api.wigle.net:443 ssl:default"

\* str(e) of the exception response.json() raises on a body that is no JSON
JsonErr == "Expecting value: line 1 column 1 (char 0)"

\* str(e) of the AttributeError data.get raises when the body is an array
NoGetErr == "'list' object has no attribute 'get'"

\* str(KeyError(k))
KeyErr(k) == "'" \o k \o "'"

HttpErrorText(status) == "HTTP error " \o DecStr(status)

\* the part every operation shares: the request and response.json().
\* A value is returned with the parsed body still wrapped.
ReadJson(r) ==
    IF r.kind # "http" THEN Raise(TransportErr(r))
    ELSE IF r.json.t = "invalid" THEN Raise(JsonErr)
    ELSE Return(r.json)

\* lines 190-194: the badge URL gets the request's timestamp appended
WithBadge(data, timestamp) ==
    IF HasKey(data, "imageBadgeUrl") /\ data.imageBadgeUrl # ""
    THEN [data EXCEPT !.imageBadgeUrl = @ \o "?nocache=" \o DecStr(timestamp)]
    ELSE data

\* fetch_wigle_user_stats_try comparing the names as they are (no .lower())
fetch_wigle_user_stats_try_exact(username, timestamp, r) ==
    IF r.kind # "http" THEN Raise(TransportErr(r))
    ELSE IF r.status = 404 THEN Return(Failure("User not found."))
    ELSE IF r.status # 200 THEN Return(Failure(HttpErrorText(r.status)))
    ELSE IF ReadJson(r).raised THEN ReadJson(r)
    ELSE IF r.json.t # "object" THEN Raise(NoGetErr)
    ELSE LET data == r.json.v IN
         IF /\ HasKey(data, "success") /\ data.success
            /\ HasKey(data, "statistics")
            /\ HasKey(data.statistics, "userName")
         THEN IF data.statistics.userName = username
              THEN Return(WithBadge(data, timestamp))
              ELSE Return(Failure("User not found."))
         ELSE Return(Failure("Invalid data received or user not found."))

fetch_wigle_user_stats_try(username, timestamp, r) ==
    IF r.kind # "http" THEN Raise(TransportErr(r))
    ELSE IF r.status = 404 THEN Return(Failure("User not found."))
    ELSE IF r.status # 200 THEN Return(Failure(HttpErrorText(r.status)))
    ELSE IF ReadJson(r).raised THEN ReadJson(r)
    ELSE IF r.json.t # "object" THEN Raise(NoGetErr)
    ELSE LET data == r.json.v IN
         IF /\ HasKey(data, "success") /\ data.success
            /\ HasKey(data, "statistics")
            /\ HasKey(data.statistics, "userName")
         THEN IF Lower(data.statistics.userName) = Lower(username)
              THEN Return(WithBadge(data, timestamp))
              ELSE Return(Failure("User not found."))
         ELSE Return(Failure("Invalid data received or user not found."))

fetch_wigle_user_stats(username, timestamp, r) ==
    LET x == fetch_wigle_user_stats_try(username, timestamp, r)
    IN  IF x.raised THEN Return(Failure(x.err)) ELSE x

fetch_wigle_group_rank_try(r) ==
    IF r.kind # "http" THEN Raise(TransportErr(r))
    ELSE IF r.status # 200 THEN Return(Failure(HttpErrorText(r.status)))
    ELSE IF ReadJson(r).raised THEN ReadJson(r)
    ELSE IF r.json.t # "object" THEN Raise(NoGetErr)
    ELSE LET data == r.json.v IN
         IF HasKey(data, "success") /\ data.success /\ HasKey(data, "groups")
         THEN Return(data)
         ELSE Return(Failure("No group data available."))

fetch_wigle_group_rank(r) ==
    LET x == fetch_wigle_group_rank_try(r)
    IN  IF x.raised THEN Return(Failure(x.err)) ELSE x

GroupMembersUrl(group_id) == ApiBase \o "group/groupMembers?groupid=" \o group_id

RECURSIVE FindGroup_LastMatch(_, _)
\* FindGroup going through the groups from the end: the last match wins
FindGroup_LastMatch(groups, group_name) ==
    IF groups = <<>>
    THEN Return(Failure("No group named '" \o Str(group_name) \o "' found."))
    ELSE LET group == groups[Len(groups)] IN
         IF ~HasKey(group, "groupName") THEN Raise(KeyErr("groupName"))
         ELSE IF Lower(group.groupName) = Lower(group_name)
              THEN IF ~HasKey(group, "groupId") THEN Raise(KeyErr("groupId"))
                   ELSE Return([success |-> TRUE, groupId |-> group.groupId,
                                url |-> GroupMembersUrl(group.groupId)])
              ELSE FindGroup_LastMatch(SubSeq(groups, 1, Len(groups) - 1), group_name)

RECURSIVE FindGroup(_, _)
\* lines 241-247: the loop over the groups, first match wins
FindGroup(groups, group_name) ==
    IF groups = <<>>
    THEN Return(Failure("No group named '" \o Str(group_name) \o "' found."))
    ELSE LET group == Head(groups) IN
         IF ~HasKey(group, "groupName") THEN Raise(KeyErr("groupName"))
         ELSE IF Lower(group.groupName) = Lower(group_name)
              THEN IF ~HasKey(group, "groupId") THEN Raise(KeyErr("groupId"))
                   ELSE Return([success |-> TRUE, groupId |-> group.groupId,
                                url |-> GroupMembersUrl(group.groupId)])
              ELSE FindGroup(Tail(groups), group_name)

fetch_wigle_id_try(group_name, r) ==
    IF r.kind # "http" THEN Raise(TransportErr(r))
    ELSE IF r.status # 200 THEN Return(Failure(HttpErrorText(r.status)))
    ELSE IF ReadJson(r).raised THEN ReadJson(r)
    ELSE IF r.json.t # "object" THEN Raise(NoGetErr)
    ELSE LET data == r.json.v IN
         IF HasKey(data, "success") /\ data.success
         THEN FindGroup(IF HasKey(data, "groups") THEN data.groups ELSE <<>>,
                        group_name)
         ELSE IF HasKey(data, "message") THEN Return(Failure(data.message))
              ELSE Raise(KeyErr("message"))

fetch_wigle_id(group_name, r) ==
    LET x == fetch_wigle_id_try(group_name, r)
    IN  IF x.raised THEN Return(Failure(x.err)) ELSE x

\* fetch_user_rank_try answering an HTTP error with an empty member list
\* where the code answers None
fetch_user_rank_try_EmptyOnError(url, r) ==
    IF r.kind # "http" THEN Raise(TransportErr(r))
    ELSE IF r.status # 200 THEN Return([t |-> "object", v |-> [users |-> <<>>]])
    ELSE ReadJson(r)

\* returns the parsed body, whatever it is, or None
fetch_user_rank_try(url, r) ==
    IF r.kind # "http" THEN Raise(TransportErr(r))
    ELSE IF r.status # 200 THEN Return(None)
    ELSE ReadJson(r)

\* fetch_user_rank without its except clause
fetch_user_rank_NoExcept(url, r) == fetch_user_rank_try(url, r)

fetch_user_rank(url, r) ==
    LET x == fetch_user_rank_try(url, r)
    IN  IF x.raised THEN Return(None) ELSE x

\* DropAnonymous keeping every entry
DropAnonymous_KeepAll(results) ==
    IF \E i \in 1..Len(results) : ~HasKey(results[i], "userName")
    THEN Raise(KeyErr("userName"))
    ELSE Return(results)

\* lines 286 and 308: the comprehension that drops "anonymous"
DropAnonymous(results) ==
    IF \E i \in 1..Len(results) : ~HasKey(results[i], "userName")
    THEN Raise(KeyErr("userName"))
    ELSE Return(SelectSeq(results, LAMBDA result : result.userName # Anonymous))

fetch_wigle_alltime_rank_try(r) ==
    IF r.kind # "http" THEN Raise(TransportErr(r))
    ELSE IF r.status # 200 THEN Return(Failure(HttpErrorText(r.status)))
    ELSE IF ReadJson(r).raised THEN ReadJson(r)
    ELSE IF r.json.t # "object" THEN Raise(NoGetErr)
    ELSE LET data == r.json.v IN
         IF HasKey(data, "success") /\ data.success /\ HasKey(data, "results")
         THEN LET kept == DropAnonymous(data.results)
              IN  IF kept.raised THEN kept
                  ELSE Return([data EXCEPT !.results = kept.ret])
         ELSE Return(Failure("No rank data available."))

fetch_wigle_alltime_rank(r) ==
    LET x == fetch_wigle_alltime_rank_try(r)
    IN  IF x.raised THEN Return(Failure(x.err)) ELSE x

fetch_wigle_month_rank_try(r) ==
    IF r.kind # "http" THEN Raise(TransportErr(r))
    ELSE IF r.status # 200 THEN Return(Failure(HttpErrorText(r.status)))
    ELSE IF ReadJson(r).raised THEN ReadJson(r)
    ELSE IF r.json.t # "object" THEN Raise(NoGetErr)
    ELSE LET data == r.json.v IN
         IF HasKey(data, "success") /\ data.success /\ HasKey(data, "results")
         THEN LET kept == DropAnonymous(data.results)
              IN  IF kept.raised THEN kept
                  ELSE Return([data EXCEPT !.results = kept.ret])
         ELSE Return(Failure("No rank data available."))

fetch_wigle_month_rank(r) ==
    LET x == fetch_wigle_month_rank_try(r)
    IN  IF x.raised THEN Return(Failure(x.err)) ELSE x

-----------------------------------------------------------------------------
(* The formatters.  Each returns the text, or raises when an entry lacks a *)
(* key it reads.                                                           *)

\* f"{rank}: {name} | Total: {count:,}\n"
RankLine(i, name, count) ==
    Ordinal(i) \o ": " \o Str(name) \o " | Total: " \o Commas(count) \o "\n"

\* the KeyError of the first entry of list that lacks one of keys (in the
\* order the code reads them), or no error
MissingKey(list, keys) ==
    IF \E i \in 1..Len(list) : \E j \in 1..Len(keys) : ~HasKey(list[i], keys[j])
    THEN LET i == CHOOSE i \in 1..Len(list) :
                    /\ \E j \in 1..Len(keys) : ~HasKey(list[i], keys[j])
                    /\ \A h \in 1..(i - 1) : \A j \in 1..Len(keys) : HasKey(list[h], keys[j])
             j == CHOOSE j \in 1..Len(keys) :
                    /\ ~HasKey(list[i], keys[j])
                    /\ \A h \in 1..(j - 1) : HasKey(list[i], keys[h])
         IN  Raise(KeyErr(keys[j]))
    ELSE Return(TRUE)

format_group_rankings(groups) ==
    LET top == SubSeq(groups, 1, Min(10, Len(groups)))
    IN  IF MissingKey(top, <<"groupName", "discovered">>).raised
        THEN MissingKey(top, <<"groupName", "discovered">>)
        ELSE Return([head |-> "**WiGLE Group Rankings:**\n",
                     lines |-> [i \in 1..Len(top) |->
                                  RankLine(i, top[i].groupName, top[i].discovered)]])

\* "L" in status
Contains(s, c) == \E i \in 1..Len(s) : s[i] = c

\* format_user_rankings taking the first ten before it drops the locked
format_user_rankings_TruncateFirst(users, group_name) ==
    LET first_ten == SubSeq(users, 1, Min(10, Len(users))) IN
    IF MissingKey(first_ten, <<"status">>).raised THEN MissingKey(first_ten, <<"status">>)
    ELSE LET top == SelectSeq(first_ten, LAMBDA user : ~Contains(user.status, "L"))
         IN  IF MissingKey(top, <<"username", "discovered">>).raised
             THEN MissingKey(top, <<"username", "discovered">>)
             ELSE Return([head |-> "**User Rankings for '" \o Str(group_name) \o "':**\n",
                          lines |-> [i \in 1..Len(top) |->
                                       RankLine(i, top[i].username, top[i].discovered)]])

format_user_rankings(users, group_name) ==
    IF MissingKey(users, <<"status">>).raised THEN MissingKey(users, <<"status">>)
    ELSE LET filtered_users == SelectSeq(users, LAMBDA user : ~Contains(user.status, "L"))
             top == SubSeq(filtered_users, 1, Min(10, Len(filtered_users)))
         IN  IF MissingKey(top, <<"username", "discovered">>).raised
             THEN MissingKey(top, <<"username", "discovered">>)
             ELSE Return([head |-> "**User Rankings for '" \o Str(group_name) \o "':**\n",
                          lines |-> [i \in 1..Len(top) |->
                                       RankLine(i, top[i].username, top[i].discovered)]])

format_alltime_rankings(results) ==
    LET top == SubSeq(results, 1, Min(10, Len(results)))
    IN  IF MissingKey(top, <<"userName", "discoveredWiFiGPS">>).raised
        THEN MissingKey(top, <<"userName", "discoveredWiFiGPS">>)
        ELSE Return([head |-> "**WiGLE All-Time User Rankings:**\n",
                     lines |-> [i \in 1..Len(top) |->
                                  RankLine(i, top[i].userName, top[i].discoveredWiFiGPS)]])

format_monthly_rankings(results) ==
    LET top == SubSeq(results, 1, Min(10, Len(results)))
    IN  IF MissingKey(top, <<"userName", "eventMonthCount">>).raised
        THEN MissingKey(top, <<"userName", "eventMonthCount">>)
        ELSE Return([head |-> "**WiGLE Monthly User Rankings:**\n",
                     lines |-> [i \in 1..Len(top) |->
                                  RankLine(i, top[i].userName, top[i].eventMonthCount)]])

RECURSIVE SplitOn(_, _, _)
\* str.split(sep) with a one-character separator: empty parts are kept
SplitOn(s, sep, cur) ==
    IF s = <<>> THEN <<cur>>
    ELSE IF Head(s) = sep THEN <<cur>> \o SplitOn(Tail(s), sep, <<>>)
    ELSE SplitOn(Tail(s), sep, Append(cur, Head(s)))

IsDigit(c) == \E i \in 1..10 : Digits[i] = c
DigitVal(c) == (CHOOSE i \in 1..10 : Digits[i] = c) - 1

RECURSIVE NumVal(_)
NumVal(s) == IF s = <<>> THEN 0 ELSE NumVal(SubSeq(s, 1, Len(s) - 1)) * 10 + DigitVal(s[Len(s)])

MonthNames == <<"January", "February", "March", "April", "May", "June", "July",
                "August", "September", "October", "November", "December">>

DaysIn(y, m) ==
    IF m = 2 THEN (IF (y % 4 = 0 /\ y % 100 # 0) \/ y % 400 = 0 THEN 29 ELSE 28)
    ELSE IF m \in {4, 6, 9, 11} THEN 30 ELSE 31

\* datetime.strptime(d, "%Y%m%d").strftime("%B %d, %Y") of an eight-character
\* string; anything else is taken not to parse
LongDate(d) ==
    IF Len(d) # 8 \/ \E i \in 1..Len(d) : ~IsDigit(d[i])
    THEN Raise("time data does not match format '%Y%m%d'")
    ELSE LET y == NumVal(SubSeq(d, 1, 4))
             m == NumVal(SubSeq(d, 5, 6))
             dd == NumVal(SubSeq(d, 7, 8))
         IN  IF y < 1 \/ m \notin 1..12 \/ dd < 1 \/ dd > DaysIn(y, m)
             THEN Raise("time data does not match format '%Y%m%d'")
             ELSE Return(MonthNames[m] \o " " \o Str(SubSeq(d, 7, 8)) \o ", " \o Str(SubSeq(d, 1, 4)))

\* lines 337-338: "date_str, _ = value.split('-')" needs exactly two parts
DatePart(value) ==
    LET parts == SplitOn(value, "-", <<>>)
    IN  IF Len(parts) = 2 THEN LongDate(parts[1])
        ELSE IF Len(parts) < 2 THEN Raise("not enough values to unpack (expected 2, got 1)")
        ELSE Raise("too many values to unpack (expected 2)")

StatKeys == <<"prevRank", "prevMonthRank", "eventMonthCount", "eventPrevMonthCount",
              "discoveredWiFiGPS", "discoveredWiFiGPSPercent", "discoveredWiFi",
              "discoveredCellGPS", "discoveredCell", "discoveredBtGPS", "discoveredBt",
              "totalWiFiLocations", "last", "first">>

create_user_message(response) ==
    IF MissingKey(<<response>>, <<"statistics", "user", "rank", "monthRank">>).raised
    THEN MissingKey(<<response>>, <<"statistics", "user", "rank", "monthRank">>)
    ELSE IF MissingKey(<<response.statistics>>, StatKeys).raised
    THEN MissingKey(<<response.statistics>>, StatKeys)
    ELSE LET st == response.statistics IN
         IF DatePart(st.last).raised THEN DatePart(st.last)
         ELSE IF DatePart(st.first).raised THEN DatePart(st.first)
         ELSE Return(
           [head |-> "**WiGLE User Stats for '" \o Str(response.user) \o "'**\n",
            lines |-> <<
              "Username: " \o Str(response.user) \o "\n",
              "Rank: " \o Commas(response.rank) \o "\n",
              "Previous Rank: " \o Commas(st.prevRank) \o "\n",
              "Monthly Rank: " \o Commas(response.monthRank) \o "\n",
              "Last Month's Rank: " \o Commas(st.prevMonthRank) \o "\n",
              "Events This Month: " \o Commas(st.eventMonthCount) \o "\n",
              "Last Month's Events: " \o Commas(st.eventPrevMonthCount) \o "\n",
              "Discovered WiFi GPS: " \o Commas(st.discoveredWiFiGPS) \o "\n",
              "Discovered WiFi GPS Percent: " \o st.discoveredWiFiGPSPercent \o "\n",
              "Discovered WiFi: " \o Commas(st.discoveredWiFi) \o "\n",
              "Discovered Cell GPS: " \o Commas(st.discoveredCellGPS) \o "\n",
              "Discovered Cell: " \o Commas(st.discoveredCell) \o "\n",
              "Discovered BT GPS: " \o Commas(st.discoveredBtGPS) \o "\n",
              "Discovered BT: " \o Commas(st.discoveredBt) \o "\n",
              "Total WiFi Locations: " \o Commas(st.totalWiFiLocations) \o "\n",
              "Last Event: " \o DatePart(st.last).ret \o "\n",
              "First Ever Event: " \o DatePart(st.first).ret \o "\n" >>])

-----------------------------------------------------------------------------
(* The command router: WigleBot.message_callback, cut at its awaits.       *)

\* the locals of a handler that has not parsed anything yet
NoLocals ==
    [command_parts |-> <<>>, command |-> <<>>, args |-> <<>>, branch |-> "none",
     timestamp |-> 0, response |-> EmptyObj, group_data |-> None]

NoEvent == [room |-> "", sender |-> "", body |-> <<>>]

NoResponse == [kind |-> "none"]

\* line 76: event.body[len(self.command_prefix):].strip(), then line 77
CommandParts(body, prefix) == Split(Strip(SubSeq(body, Len(prefix) + 1, Len(body))))

\* GatedIn without the echo suppression of lines 71-72
GatedIn_NoEcho(event, b) == StartsWith(event.body, b.command_prefix)

\* lines 71-75: the event reaches the parser
GatedIn(event, b) ==
    /\ event.sender # b.user_id
    /\ StartsWith(event.body, b.command_prefix)

\* Dispatch with "user" not asking for an argument
Dispatch_NoArgCheck(command, args) ==
    IF command = V_user THEN "user"
    ELSE IF command = V_grouprank THEN "grouprank"
    ELSE IF command = V_userrank /\ args # <<>> THEN "userrank"
    ELSE IF command = V_alltime THEN "alltime"
    ELSE IF command = V_monthly THEN "monthly"
    ELSE IF command = V_help THEN "help"
    ELSE "unknown"

\* the if/elif chain of lines 81-150: the branch a parsed command takes
Dispatch(command, args) ==
    IF command = V_user /\ args # <<>> THEN "user"
    ELSE IF command = V_grouprank THEN "grouprank"
    ELSE IF command = V_userrank /\ args # <<>> THEN "userrank"
    ELSE IF command = V_alltime THEN "alltime"
    ELSE IF command = V_monthly THEN "monthly"
    ELSE IF command = V_help THEN "help"
    ELSE "unknown"

\* "success" in response and response["success"]
Succeeded(response) == HasKey(response, "success") /\ response.success

\* ErrorText that always answers with the generic text
ErrorText_Generic(response, default) == default

\* response.get("message", default)
ErrorText(response, default) ==
    IF HasKey(response, "message") THEN response.message ELSE default

\* the truth value Python gives a parsed body or None (line 112)
Truthy(data) ==
    \/ data.t = "object" /\ DOMAIN data.v # {}
    \/ data.t = "array" /\ data.len > 0

\* what each outbound operation leaves in the log
TypingOp(t, room_id) == [task |-> t, op |-> "typing", room |-> room_id, timeout |-> 3000]
GetOp(t, url, b) ==
    [task |-> t, op |-> "get", url |-> url,
     headers |-> [Authorization |-> "Basic " \o b.wigle_api_key, CacheControl |-> "no-cache"]]
ResolvedOp(t) == [task |-> t, op |-> "resolved"]
TextOp(t, room_id, message) ==
    [task |-> t, op |-> "text", room |-> room_id, msgtype |-> "m.text", body |-> message]

\* the URL of the first request of a branch
FirstUrl(branch, l, timestamp) ==
    IF branch = "user"
    THEN ApiBase \o "stats/user?user=" \o Str(l.args[1]) \o "&nocache=" \o DecStr(timestamp)
    ELSE IF branch \in {"grouprank", "userrank"}
    THEN ApiBase \o "stats/group?nocache=" \o DecStr(timestamp)
    ELSE IF branch = "alltime"
    THEN ApiBase \o "stats/standings?sort=discovered&pagestart=0"
    ELSE ApiBase \o "stats/standings?sort=monthcount&pagestart=0"

\* message_callback is called with an event and runs to its first await:
\* the typing notice of a recognised command, or the unknown-command text
MessageCallback(t) ==
    /\ pc[t] = "idle"
    /\ \E room_id \in Rooms, sender \in Senders, body \in Bodies :
        LET event == [room |-> room_id, sender |-> sender, body |-> body]
            parts == CommandParts(body, bot.command_prefix)
            command == Lower(parts[1])
            args == Tail(parts)
            parsed == [NoLocals EXCEPT !.command_parts = parts, !.command = command,
                                       !.args = args, !.branch = Dispatch(command, args)]
        IN  /\ ev' = [ev EXCEPT ![t] = event]
            /\ resp' = [resp EXCEPT ![t] = NoResponse]
            /\ IF ~GatedIn(event, bot)
               THEN /\ pc' = [pc EXCEPT ![t] = "done"]
                    /\ loc' = [loc EXCEPT ![t] = NoLocals]
                    /\ log' = log
               ELSE IF parts = <<>>
               THEN \* command_parts[0] raises IndexError
                    /\ pc' = [pc EXCEPT ![t] = "fault"]
                    /\ loc' = [loc EXCEPT ![t] = NoLocals]
                    /\ log' = log
               ELSE IF parsed.branch = "unknown"
               THEN /\ pc' = [pc EXCEPT ![t] = "done"]
                    /\ loc' = [loc EXCEPT ![t] = parsed]
                    /\ log' = Append(log, TextOp(t, room_id, Plain(UnknownText)))
               ELSE /\ pc' = [pc EXCEPT ![t] = "typing"]
                    /\ loc' = [loc EXCEPT ![t] = parsed]
                    /\ log' = Append(log, TypingOp(t, room_id))
    /\ UNCHANGED <<bot, calls>>

\* lines 143-147: the help branch after its typing notice
HelpReply(t) ==
    /\ pc[t] = "typing"
    /\ loc[t].branch = "help"
    /\ pc' = [pc EXCEPT ![t] = "done"]
    /\ log' = Append(log, TextOp(t, ev[t].room, Plain(HelpText)))
    /\ UNCHANGED <<bot, ev, loc, resp, calls>>

\* the first session.get of a fetching branch is issued
SendGet(t) ==
    /\ pc[t] = "typing"
    /\ loc[t].branch \in {"user", "grouprank", "userrank", "alltime", "monthly"}
    /\ \E timestamp \in Timestamps :
        /\ loc' = [loc EXCEPT ![t].timestamp = timestamp]
        /\ log' = Append(log, GetOp(t, FirstUrl(loc[t].branch, loc[t], timestamp), bot))
    /\ pc' = [pc EXCEPT ![t] = "get"]
    /\ UNCHANGED <<bot, ev, resp, calls>>

\* Finish issuing the request once more when the operation returned a failure
Finish_RetryOnFailure(t, r, fetched, response, outcome) ==
    /\ resp' = [resp EXCEPT ![t] = r]
    /\ IF ~fetched.raised /\ ~Succeeded(response)
       THEN LET gets == SelectSeq(log, LAMBDA e : e.task = t /\ e.op = "get")
            IN  /\ pc' = pc
                /\ log' = log \o <<ResolvedOp(t), gets[Len(gets)]>>
       ELSE IF fetched.raised \/ outcome.raised
       THEN /\ pc' = [pc EXCEPT ![t] = "fault"]
            /\ log' = Append(log, ResolvedOp(t))
       ELSE /\ pc' = [pc EXCEPT ![t] = "done"]
            /\ log' = log \o <<ResolvedOp(t), TextOp(t, ev[t].room, outcome.ret)>>
    /\ UNCHANGED <<bot, ev, calls>>

\* Finish closing the session when the operation returned a failure
Finish_ClosesSession(t, r, fetched, response, outcome) ==
    /\ resp' = [resp EXCEPT ![t] = r]
    /\ IF fetched.raised \/ outcome.raised
       THEN /\ pc' = [pc EXCEPT ![t] = "fault"]
            /\ log' = Append(log, ResolvedOp(t))
       ELSE /\ pc' = [pc EXCEPT ![t] = "done"]
            /\ log' = log \o <<ResolvedOp(t), TextOp(t, ev[t].room, outcome.ret)>>
    /\ bot' = IF Succeeded(response) THEN bot ELSE [bot EXCEPT !.session.closed = TRUE]
    /\ UNCHANGED <<ev, calls>>

\* the rest of a branch once its last request resolved with r: fetched is
\* what the fetch returned (or raised), response the value the handler holds,
\* outcome the text it then builds (or the exception it raises building it)
Finish(t, r, fetched, response, outcome) ==
    /\ resp' = [resp EXCEPT ![t] = r]
    /\ IF fetched.raised \/ outcome.raised
       THEN /\ pc' = [pc EXCEPT ![t] = "fault"]
            /\ log' = Append(log, ResolvedOp(t))
       ELSE /\ pc' = [pc EXCEPT ![t] = "done"]
            /\ log' = log \o <<ResolvedOp(t), TextOp(t, ev[t].room, outcome.ret)>>
    /\ UNCHANGED <<bot, ev, calls>>

\* lines 85-92, the request having resolved with r
UserReplyWith(t, r) ==
    /\ pc[t] = "get"
    /\ loc[t].branch = "user"
    /\ LET fetched == fetch_wigle_user_stats(loc[t].args[1], loc[t].timestamp, r)
           response == IF fetched.raised THEN EmptyObj ELSE fetched.ret
       IN  /\ loc' = [loc EXCEPT ![t].response = response]
           /\ Finish(t, r, fetched, response,
                     IF fetched.raised THEN fetched
                     ELSE IF Succeeded(response) THEN create_user_message(response)
                     ELSE Return(Plain(ErrorText(response, "Failed to fetch user stats."))))

UserReply(t) == \E r \in Responses(UserObjects) : UserReplyWith(t, r)

\* lines 96-103, the request having resolved with r
GroupRankReplyWith(t, r) ==
    /\ pc[t] = "get"
    /\ loc[t].branch = "grouprank"
    /\ LET fetched == fetch_wigle_group_rank(r)
           response == IF fetched.raised THEN EmptyObj ELSE fetched.ret
       IN  /\ loc' = [loc EXCEPT ![t].response = response]
           /\ Finish(t, r, fetched, response,
                     IF fetched.raised THEN fetched
                     ELSE IF Succeeded(response) THEN format_group_rankings(response.groups)
                     ELSE Return(Plain(ErrorText(response, "Failed to fetch group ranks."))))

GroupRankReply(t) == \E r \in Responses(GroupObjects) : GroupRankReplyWith(t, r)

\* lines 108-111 and 117-120: the group-list request having resolved with r,
\* the group id is resolved; on success the second request is issued
UserRankResolveWith(t, r) ==
    /\ pc[t] = "get"
    /\ loc[t].branch = "userrank"
    /\ LET group == JoinWords(loc[t].args)
           fetched == fetch_wigle_id(group, r)
           response == IF fetched.raised THEN EmptyObj ELSE fetched.ret
       IN  /\ loc' = [loc EXCEPT ![t].response = response]
           /\ IF ~fetched.raised /\ Succeeded(response)
              THEN /\ resp' = [resp EXCEPT ![t] = r]
                   /\ pc' = [pc EXCEPT ![t] = "get_members"]
                   /\ log' = log \o <<ResolvedOp(t), GetOp(t, response.url, bot)>>
                   /\ UNCHANGED <<bot, ev, calls>>
              ELSE Finish(t, r, fetched, response,
                          IF fetched.raised THEN fetched
                          ELSE Return(Plain(ErrorText(response, "Failed to fetch group ID."))))

UserRankResolve(t) == \E r \in Responses(GroupObjects) : UserRankResolveWith(t, r)

\* lines 111-116, the group-members request having resolved with r
UserRankReplyWith(t, r) ==
    /\ pc[t] = "get_members"
    /\ LET group == JoinWords(loc[t].args)
           fetched == fetch_user_rank(loc[t].response.url, r)
           group_data == IF fetched.raised THEN None ELSE fetched.ret
       IN  /\ loc' = [loc EXCEPT ![t].group_data = group_data]
           /\ Finish(t, r, fetched, loc[t].response,
                     IF fetched.raised THEN fetched
                     ELSE IF ~Truthy(group_data)
                     THEN Return(Plain("Failed to fetch group data."))
                     ELSE IF group_data.t # "object" THEN Raise(NoGetErr)
                     ELSE format_user_rankings(
                              IF HasKey(group_data.v, "users") THEN group_data.v.users
                              ELSE <<>>, group))

UserRankReply(t) == \E r \in Responses(MemberObjects) : UserRankReplyWith(t, r)

\* lines 124-131, the request having resolved with r
AllTimeReplyWith(t, r) ==
    /\ pc[t] = "get"
    /\ loc[t].branch = "alltime"
    /\ LET fetched == fetch_wigle_alltime_rank(r)
           response == IF fetched.raised THEN EmptyObj ELSE fetched.ret
       IN  /\ loc' = [loc EXCEPT ![t].response = response]
           /\ Finish(t, r, fetched, response,
                     IF fetched.raised THEN fetched
                     ELSE IF Succeeded(response) THEN format_alltime_rankings(response.results)
                     ELSE Return(Plain(ErrorText(response, "Failed to fetch user ranks."))))

AllTimeReply(t) == \E r \in Responses(StandingObjects) : AllTimeReplyWith(t, r)

\* lines 135-142, the request having resolved with r
MonthlyReplyWith(t, r) ==
    /\ pc[t] = "get"
    /\ loc[t].branch = "monthly"
    /\ LET fetched == fetch_wigle_month_rank(r)
           response == IF fetched.raised THEN EmptyObj ELSE fetched.ret
       IN  /\ loc' = [loc EXCEPT ![t].response = response]
           /\ Finish(t, r, fetched, response,
                     IF fetched.raised THEN fetched
                     ELSE IF Succeeded(response) THEN format_monthly_rankings(response.results)
                     ELSE Return(Plain(ErrorText(response, "Failed to fetch monthly rankings."))))

MonthlyReply(t) == \E r \in Responses(StandingObjects) : MonthlyReplyWith(t, r)

\* message_callback has returned: its frame is gone, and what it sent is no
\* longer looked at
CallbackReturns(t) ==
    /\ pc[t] = "done"
    /\ pc' = [pc EXCEPT ![t] = "idle"]
    /\ ev' = [ev EXCEPT ![t] = NoEvent]
    /\ loc' = [loc EXCEPT ![t] = NoLocals]
    /\ resp' = [resp EXCEPT ![t] = NoResponse]
    /\ log' = SelectSeq(log, LAMBDA e : e.task # t)
    /\ calls' = IF calls < MaxCalls THEN calls + 1 ELSE calls
    /\ UNCHANGED bot

\* the seconds the session gives a whole request (line 41)
TotalTimeout == 60

\* ClientTimeout with no total, which leaves a request unbounded
ClientTimeout_NoTotal(total) == [total |-> 0]

\* aiohttp.ClientTimeout(total=...); a total of 0 stands for no limit
ClientTimeout(total) == [total |-> total]

\* WigleBot.__init__
Init ==
    /\ bot = [user_id |-> BotUserId, command_prefix |-> CommandPrefix,
              wigle_api_key |-> "APIKEY",
              session |-> [closed |-> FALSE, timeout |-> ClientTimeout(TotalTimeout)]]
    /\ pc = [t \in Tasks |-> "idle"]
    /\ ev = [t \in Tasks |-> NoEvent]
    /\ loc = [t \in Tasks |-> NoLocals]
    /\ resp = [t \in Tasks |-> NoResponse]
    /\ log = <<>>
    /\ calls = 0

\* the task the event loop runs a callback in, one event at a time
Solo == {1}

Next ==
    \E t \in Solo :
        \/ MessageCallback(t)
        \/ HelpReply(t)
        \/ SendGet(t)
        \/ UserReply(t)
        \/ GroupRankReply(t)
        \/ UserRankResolve(t)
        \/ UserRankReply(t)
        \/ AllTimeReply(t)
        \/ MonthlyReply(t)
        \/ CallbackReturns(t)

Spec == Init /\ [][Next]_vars

-----------------------------------------------------------------------------
(* The same steps with the resolution of a request split in two: the       *)
(* upstream answers (which it may never do), or the session's total        *)
(* timeout expires and session.get raises.                                 *)

Timeout == [kind |-> "timeout"]

\* what the upstream may answer, when it answers
Answers(O) == Responses(O) \ {Timeout}

\* the request handler t awaits resolves with an answer of the upstream
ResponseArrives(t) ==
    \/ \E r \in Answers(UserObjects) : UserReplyWith(t, r)
    \/ \E r \in Answers(GroupObjects) : GroupRankReplyWith(t, r)
    \/ \E r \in Answers(GroupObjects) : UserRankResolveWith(t, r)
    \/ \E r \in Answers(MemberObjects) : UserRankReplyWith(t, r)
    \/ \E r \in Answers(StandingObjects) : AllTimeReplyWith(t, r)
    \/ \E r \in Answers(StandingObjects) : MonthlyReplyWith(t, r)

\* the session's timer fires on the request handler t awaits
TimeoutExpires(t) ==
    /\ bot.session.timeout.total > 0
    /\ \/ UserReplyWith(t, Timeout)
       \/ GroupRankReplyWith(t, Timeout)
       \/ UserRankResolveWith(t, Timeout)
       \/ UserRankReplyWith(t, Timeout)
       \/ AllTimeReplyWith(t, Timeout)
       \/ MonthlyReplyWith(t, Timeout)

NextLive ==
    \E t \in Solo :
        \/ MessageCallback(t)
        \/ HelpReply(t)
        \/ SendGet(t)
        \/ ResponseArrives(t)
        \/ TimeoutExpires(t)
        \/ CallbackReturns(t)

\* The event loop resumes a handler whose await has completed, and the
\* session's timer fires; nothing makes the upstream answer.
Fairness ==
    \A t \in Solo :
        /\ WF_vars(HelpReply(t))
        /\ WF_vars(SendGet(t))
        /\ WF_vars(TimeoutExpires(t))

SpecLive == Init /\ [][NextLive]_vars /\ Fairness

-----------------------------------------------------------------------------
(* Two handlers in flight at once.  Each await of message_callback is a    *)
(* point where the event loop may run the other handler; the steps are the *)
(* same actions, taken by either task, on fewer inputs.                    *)

\* the bodies the two handlers are called with
ConcurrentBodies ==
    { CommandPrefix \o b : b \in
        { V_user \o SP \o W_al, V_userrank \o SP \o W_al, V_alltime, V_help } }

\* the 200 response with the JSON object d as its body
Ok200(d) == [kind |-> "http", status |-> 200, json |-> [t |-> "object", v |-> d]]

\* the answers the upstream gives them: a timeout, a 500, and 200 bodies
\* that are complete, that name another user, or that lack a field
ConcurrentFailures == { [kind |-> "timeout"], [kind |-> "http", status |-> 500] }

ConcurrentUserResponses ==
    ConcurrentFailures
    \cup { Ok200([success |-> TRUE, statistics |-> FullStats(n), user |-> n,
                   rank |-> 1234, monthRank |-> 88]) : n \in {W_al, W_bo} }
    \cup { Ok200([success |-> TRUE, statistics |-> FullStats(W_al)]) }

ConcurrentGroupResponses ==
    ConcurrentFailures
    \cup { Ok200([success |-> TRUE, groups |-> <<g>>]) :
             g \in { h \in NamedGroups : Len(h.groupName) = 2 } }

ConcurrentMemberResponses ==
    ConcurrentFailures
    \cup { Ok200([users |-> [i \in 1..2 |->
                     [username |-> PosName(i), discovered |-> PosCount(i),
                      status |-> MemberStatus(i, FALSE)]]]) }

ConcurrentStandingResponses ==
    ConcurrentFailures
    \cup { Ok200([success |-> TRUE, results |-> <<e>>]) :
             e \in { [userName |-> W_al],
                     [userName |-> PosName(1), discoveredWiFiGPS |-> PosCount(1),
                      eventMonthCount |-> PosCount(1) \div 1000] } }

\* one step of handler t
ConcurrentStep(t) ==
    \/ /\ MessageCallback(t)
       /\ ev'[t].body \in ConcurrentBodies
       /\ ev'[t].sender # BotUserId
    \/ HelpReply(t)
    \/ SendGet(t)
    \/ \E r \in ConcurrentUserResponses : UserReplyWith(t, r)
    \/ \E r \in ConcurrentGroupResponses : UserRankResolveWith(t, r)
    \/ \E r \in ConcurrentMemberResponses : UserRankReplyWith(t, r)
    \/ \E r \in ConcurrentStandingResponses : AllTimeReplyWith(t, r)
    \/ CallbackReturns(t)

NextConcurrent == \E t \in Tasks : ConcurrentStep(t)

SpecConcurrent == Init /\ [][NextConcurrent]_vars

-----------------------------------------------------------------------------
(* What the claims are stated with.                                        *)

\* the outbound operations of task t, in order
OpsOf(t) == SelectSeq(log, LAMBDA e : e.task = t)

\* how many operations of kind k task t has issued
CountOps(t, k) == Len(SelectSeq(log, LAMBDA e : e.task = t /\ e.op = k))

\* the texts task t has sent
TextsOf(t) == SelectSeq(log, LAMBDA e : e.task = t /\ e.op = "text")

\* message_callback has ended, by returning or by an uncaught exception
Ended(t) == pc[t] \in {"done", "fault"}

\* equality of two names up to the case of their letters
CaseEq(a, b) ==
    /\ Len(a) = Len(b)
    /\ \A i \in 1..Len(a) :
        \/ a[i] = b[i]
        \/ \E k \in 1..26 : {a[i], b[i]} = {UpperChars[k], LowerChars[k]}

\* the words of args with one space between neighbours
Typed(args) ==
    LET F[i \in 1..Len(args)] == IF i = 1 THEN args[1] ELSE F[i - 1] \o <<" ">> \o args[i]
    IN  F[Len(args)]

\* the positions of list whose entry satisfies Keep, and the k-th of them
Kept(list, Keep(_)) == { i \in 1..Len(list) : Keep(list[i]) }
Nth(K, k) == CHOOSE i \in K : Cardinality({ j \in K : j <= i }) = k

OrdinalWords == <<"1st", "2nd", "3rd", "4th", "5th", "6th", "7th", "8th", "9th", "10th">>

\* the response task t consumed is a 200 whose body is a JSON object
GotObject(t) ==
    /\ resp[t].kind = "http"
    /\ resp[t].status = 200
    /\ resp[t].json.t = "object"

-----------------------------------------------------------------------------
(* C1 -- C3: the router.                                                   *)

FetchingBranches == {"user", "grouprank", "userrank", "alltime", "monthly"}

\* C1: for every recognised, argument-satisfied command the typing notice
\* precedes the first upstream request, and every call of message_callback
\* sends exactly one text, after its last upstream request has resolved.
C1_TypingThenExactlyOneText ==
    \A t \in Tasks :
        loc[t].branch \in FetchingBranches =>
            LET ops == OpsOf(t) IN
            /\ \A i \in 1..Len(ops) :
                 ops[i].op = "get" => \E j \in 1..(i - 1) : ops[j].op = "typing"
            /\ CountOps(t, "text") <= 1
            /\ Ended(t) =>
                 /\ CountOps(t, "text") = 1
                 /\ ops[Len(ops)].op = "text"
                 /\ CountOps(t, "resolved") = CountOps(t, "get")

\* The part of C1 that the code keeps: the typing notice precedes the first
\* request, no call sends two texts, and a call that returns normally has
\* sent exactly one text, as its last operation.
C1_OrderingOfNormalReturns ==
    \A t \in Tasks :
        loc[t].branch \in FetchingBranches =>
            LET ops == OpsOf(t) IN
            /\ \A i \in 1..Len(ops) :
                 ops[i].op = "get" => \E j \in 1..(i - 1) : ops[j].op = "typing"
            /\ CountOps(t, "text") <= 1
            /\ pc[t] = "done" =>
                 /\ CountOps(t, "text") = 1
                 /\ ops[Len(ops)].op = "text"
                 /\ CountOps(t, "resolved") = CountOps(t, "get")

\* C2: a message that does not start with "!" or that the bot itself sent
\* causes no outbound operation at all.
C2_GateSilence ==
    \A t \in Tasks :
        (/\ pc[t] # "idle"
         /\ \/ ev[t].body = <<>>
            \/ ev[t].body[1] # "!"
            \/ ev[t].sender = "@wiglebot:hs")
        => (pc[t] = "done" /\ OpsOf(t) = <<>>)

C2_Witness ==
    \E t \in Tasks :
        /\ pc[t] = "done"
        /\ ev[t].body = <<"!", "h", "e", "l", "p">>
        /\ ev[t].sender = "@wiglebot:hs"
        /\ OpsOf(t) = <<>>

\* C3: a gated-in message whose verb is none of the six, or is user or
\* userrank with no argument, gets the unknown-command text and nothing else.
C3_UnknownCommand ==
    \A t \in Tasks :
        (/\ pc[t] # "idle"
         /\ loc[t].command_parts # <<>>
         /\ \/ loc[t].command \notin
                 {V_user, V_grouprank, V_userrank, V_alltime, V_monthly, V_help}
            \/ loc[t].command \in {V_user, V_userrank} /\ Len(loc[t].command_parts) = 1)
        => /\ pc[t] = "done"
           /\ Len(OpsOf(t)) = 1
           /\ OpsOf(t)[1].op = "text"
           /\ OpsOf(t)[1].room = ev[t].room
           /\ OpsOf(t)[1].body =
                Plain("Unknown command. Type !help for available commands.")

C3_Witness ==
    \E t \in Tasks :
        /\ pc[t] = "done"
        /\ ev[t].body = <<"!", "u", "s", "e", "r", " ">>
        /\ loc[t].command = V_user
        /\ TextsOf(t) # <<>>
        /\ TextsOf(t)[1].body = Plain(UnknownText)

-----------------------------------------------------------------------------
(* C4 -- C6: what the user and userrank branches answer.                   *)

\* a stats/user body passes the checks of line 187
SoundUserBody(d) ==
    /\ "success" \in DOMAIN d
    /\ d.success = TRUE
    /\ "statistics" \in DOMAIN d
    /\ "userName" \in DOMAIN d.statistics

\* task t has run the user branch up to the return of fetch_wigle_user_stats
UserFetched(t) == loc[t].branch = "user" /\ resp[t].kind # "none"

\* C4, as amended: fetch_wigle_user_stats returns a failure for a 404 and for
\* a 200 object body that lacks a true success, the statistics or its
\* userName, or whose userName differs from the request beyond letter case;
\* the failures are not all alike: 404 and a differing name carry
\* "User not found.", an incomplete body carries
\* "Invalid data received or user not found."; a 200 body whose userName
\* matches up to case is returned as the success.
C4_UserStatsOutcomes ==
    \A t \in Tasks :
        (UserFetched(t) /\ resp[t].kind = "http") =>
            LET r == resp[t]
                res == loc[t].response
                username == loc[t].args[1]
            IN  /\ r.status = 404 =>
                     res = [success |-> FALSE, message |-> "User not found."]
                /\ GotObject(t) =>
                     LET d == r.json.v IN
                     IF ~SoundUserBody(d)
                     THEN res = [success |-> FALSE,
                                 message |-> "Invalid data received or user not found."]
                     ELSE IF CaseEq(d.statistics.userName, username)
                     THEN /\ "success" \in DOMAIN res /\ res.success = TRUE
                          /\ res.statistics = d.statistics
                     ELSE res = [success |-> FALSE, message |-> "User not found."]

C4_Witness ==
    \E t \in Tasks :
        /\ UserFetched(t) /\ GotObject(t)
        /\ "statistics" \notin DOMAIN resp[t].json.v
        /\ "success" \in DOMAIN resp[t].json.v /\ resp[t].json.v.success
        /\ loc[t].response.message = "Invalid data received or user not found."
        /\ pc[t] = "done"

\* C4, as first stated: all of these cases give one and the same NotFound
\* outcome, the one a 404 gives.
C4_OneNotFoundOutcome ==
    \A t \in Tasks :
        (/\ UserFetched(t) /\ resp[t].kind = "http"
         /\ \/ resp[t].status = 404
            \/ /\ GotObject(t)
               /\ \/ ~SoundUserBody(resp[t].json.v)
                  \/ ~CaseEq(resp[t].json.v.statistics.userName, loc[t].args[1]))
        => loc[t].response = [success |-> FALSE, message |-> "User not found."]

\* C5: in the user branch an error of fetch_wigle_user_stats is answered with
\* one text, the error's message (the generic text if it has none); a 404
\* gives "User not found."; message_callback returns normally.
C5_UserErrorText ==
    \A t \in Tasks :
        (/\ UserFetched(t)
         /\ ~("success" \in DOMAIN loc[t].response /\ loc[t].response.success = TRUE))
        => /\ pc[t] = "done"
           /\ Len(TextsOf(t)) = 1
           /\ TextsOf(t)[1].room = ev[t].room
           /\ TextsOf(t)[1].body.lines = <<>>
           /\ TextsOf(t)[1].body.head =
                (IF "message" \in DOMAIN loc[t].response THEN loc[t].response.message
                 ELSE "Failed to fetch user stats.")
           /\ (resp[t].kind = "http" /\ resp[t].status = 404)
                => TextsOf(t)[1].body.head = "User not found."

C5_Witness ==
    \E t \in Tasks :
        /\ UserFetched(t)
        /\ resp[t].kind = "http" /\ resp[t].status = 404
        /\ pc[t] = "done"
        /\ TextsOf(t)[1].body = Plain("User not found.")

\* the group list task t consumed came with success and a groups array whose
\* entries all carry a name, none of them the typed name up to letter case
NoSuchGroup(t) ==
    /\ loc[t].branch = "userrank"
    /\ GotObject(t)
    /\ "success" \in DOMAIN resp[t].json.v /\ resp[t].json.v.success = TRUE
    /\ "groups" \in DOMAIN resp[t].json.v
    /\ \A i \in 1..Len(resp[t].json.v.groups) :
         /\ "groupName" \in DOMAIN resp[t].json.v.groups[i]
         /\ ~CaseEq(resp[t].json.v.groups[i].groupName, Typed(loc[t].args))

\* C6: userrank joins its arguments with single spaces; when the group list
\* holds no group of that name (up to case) the one text sent is
\* "No group named '<name>' found." and no second request is issued.
C6_NoGroupNamed ==
    \A t \in Tasks :
        NoSuchGroup(t) =>
            /\ pc[t] = "done"
            /\ CountOps(t, "get") = 1
            /\ Len(TextsOf(t)) = 1
            /\ TextsOf(t)[1].room = ev[t].room
            /\ TextsOf(t)[1].body =
                 Plain("No group named '" \o Str(Typed(loc[t].args)) \o "' found.")

C6_Witness ==
    \E t \in Tasks :
        /\ NoSuchGroup(t)
        /\ ev[t].body = CommandPrefix \o V_userrank \o SP \o SP \o W_al
                          \o SP \o SP \o SP \o W_bo \o SP
        /\ resp[t].json.v.groups # <<>>
        /\ TextsOf(t) # <<>>
        /\ TextsOf(t)[1].body = Plain("No group named 'al bo' found.")

-----------------------------------------------------------------------------
(* C7 -- C9: which entries a ranking shows.                                *)

\* every entry of list carries the keys
WellFormed(list, keys) == \A i \in 1..Len(list) : keys \subseteq DOMAIN list[i]

Unlocked(user) == \A i \in 1..Len(user.status) : user.status[i] # "L"

Named(result) == result.userName # <<"a", "n", "o", "n", "y", "m", "o", "u", "s">>

\* task t has answered userrank from a member list whose entries are complete
RankedMembers(t) ==
    /\ loc[t].branch = "userrank"
    /\ CountOps(t, "get") = 2
    /\ Ended(t)
    /\ GotObject(t)
    /\ "users" \in DOMAIN resp[t].json.v
    /\ WellFormed(resp[t].json.v.users, {"username", "discovered", "status"})

\* the ranked lines of the text task t sent
LinesOf(t) == TextsOf(t)[1].body.lines

\* C7: format_user_rankings filters before it truncates: the ranked lines are
\* the first 10 (or fewer) of the entries whose status holds no "L", in their
\* original order; no locked entry is shown.
C7_FilterBeforeTruncate ==
    \A t \in Tasks :
        RankedMembers(t) =>
            LET users == resp[t].json.v.users
                K == Kept(users, Unlocked)
            IN  /\ pc[t] = "done"
                /\ Len(TextsOf(t)) = 1
                /\ Len(LinesOf(t)) = Min(10, Cardinality(K))
                /\ \A k \in 1..Len(LinesOf(t)) :
                     LinesOf(t)[k] =
                       RankLine(k, users[Nth(K, k)].username, users[Nth(K, k)].discovered)
                /\ \A i \in (1..Len(users)) \ K : \A k \in 1..Len(LinesOf(t)) :
                     LinesOf(t)[k] # RankLine(k, users[i].username, users[i].discovered)

\* a locked member among the first ten, and the eleventh member shown tenth
C7_Witness ==
    \E t \in Tasks :
        /\ RankedMembers(t)
        /\ Len(resp[t].json.v.users) = 11
        /\ \E i \in 1..10 : ~Unlocked(resp[t].json.v.users[i])
        /\ Unlocked(resp[t].json.v.users[11])
        /\ Len(LinesOf(t)) = 10
        /\ LinesOf(t)[10] = "10th: n11 | Total: 636,363\n"

\* the list task t handed to its formatter, and the fields a line is made of
GivenList(t) ==
    IF loc[t].branch = "grouprank" THEN loc[t].response.groups ELSE loc[t].response.results

GivenKeys(t) ==
    IF loc[t].branch = "grouprank" THEN {"groupName", "discovered"}
    ELSE IF loc[t].branch = "alltime" THEN {"userName", "discoveredWiFiGPS"}
    ELSE {"userName", "eventMonthCount"}

\* task t has handed a list of complete entries to the group, all-time or
\* monthly formatter
Formatted(t) ==
    /\ Ended(t)
    /\ loc[t].branch \in {"grouprank", "alltime", "monthly"}
    /\ "success" \in DOMAIN loc[t].response /\ loc[t].response.success = TRUE
    /\ WellFormed(GivenList(t), GivenKeys(t))

GivenName(t, e) == IF loc[t].branch = "grouprank" THEN e.groupName ELSE e.userName

GivenCount(t, e) ==
    IF loc[t].branch = "grouprank" THEN e.discovered
    ELSE IF loc[t].branch = "alltime" THEN e.discoveredWiFiGPS
    ELSE e.eventMonthCount

\* the line of rank k for an entry with this name and this count
Line(k, name, count) ==
    OrdinalWords[k] \o ": " \o Str(name) \o " | Total: " \o Commas(count) \o "\n"

\* C8, as amended: the group, all-time and monthly formatters show the first
\* 10 entries of the list they are given (all of a shorter list), numbered
\* 1st, 2nd, ... in input order; format_user_rankings shows the first 10 of
\* the entries that are not locked, numbered the same way, so a list of 10
\* or more members gives fewer than 10 lines when fewer than 10 are unlocked.
C8_TenRankedLines ==
    \A t \in Tasks :
        /\ Formatted(t) =>
             /\ pc[t] = "done"
             /\ Len(TextsOf(t)) = 1
             /\ Len(LinesOf(t)) = Min(10, Len(GivenList(t)))
             /\ \A k \in 1..Len(LinesOf(t)) :
                  LinesOf(t)[k] = Line(k, GivenName(t, GivenList(t)[k]),
                                       GivenCount(t, GivenList(t)[k]))
        /\ RankedMembers(t) =>
             LET users == resp[t].json.v.users
                 K == Kept(users, Unlocked)
             IN  /\ pc[t] = "done"
                 /\ Len(TextsOf(t)) = 1
                 /\ Len(LinesOf(t)) = Min(10, Cardinality(K))
                 /\ \A k \in 1..Len(LinesOf(t)) :
                      LinesOf(t)[k] =
                        Line(k, users[Nth(K, k)].username, users[Nth(K, k)].discovered)

C8_Witness ==
    \E t \in Tasks :
        /\ Formatted(t)
        /\ loc[t].branch = "grouprank"
        /\ Len(GivenList(t)) = 11
        /\ Len(LinesOf(t)) = 10
        /\ LinesOf(t)[1] = "1st: n1 | Total: 1,343,433\n"
        /\ LinesOf(t)[10] = "10th: n10 | Total: 707,070\n"

\* C8, as first stated: each of the four formatters gives exactly 10 ranked
\* lines for a list of 10 or more entries, and one line per entry for a
\* shorter list.
C8_AlwaysTenLines ==
    \A t \in Tasks :
        /\ Formatted(t) => Len(LinesOf(t)) = Min(10, Len(GivenList(t)))
        /\ RankedMembers(t) => Len(LinesOf(t)) = Min(10, Len(resp[t].json.v.users))

\* task t got standings back as a success
StandingsOk(t) ==
    /\ loc[t].branch \in {"alltime", "monthly"}
    /\ Ended(t)
    /\ "success" \in DOMAIN loc[t].response /\ loc[t].response.success = TRUE

\* C9: the results a standings operation returns hold no "anonymous" entry
\* and keep the other entries in upstream order; the reply shows the first 10
\* of those and never an anonymous one.
C9_NoAnonymous ==
    \A t \in Tasks :
        StandingsOk(t) =>
            LET upstream == resp[t].json.v.results
                results == loc[t].response.results
                K == Kept(upstream, Named)
            IN  /\ \A i \in 1..Len(results) : Named(results[i])
                /\ Len(results) = Cardinality(K)
                /\ \A k \in 1..Len(results) : results[k] = upstream[Nth(K, k)]
                /\ pc[t] = "done" =>
                     /\ Len(LinesOf(t)) = Min(10, Cardinality(K))
                     /\ \A k \in 1..Len(LinesOf(t)) :
                          LinesOf(t)[k] =
                            Line(k, upstream[Nth(K, k)].userName,
                                 GivenCount(t, upstream[Nth(K, k)]))

\* an anonymous entry among the first ten, and the eleventh entry shown tenth
C9_Witness ==
    \E t \in Tasks :
        /\ StandingsOk(t)
        /\ loc[t].branch = "monthly"
        /\ Len(resp[t].json.v.results) = 11
        /\ \E i \in 1..10 : ~Named(resp[t].json.v.results[i])
        /\ Named(resp[t].json.v.results[11])
        /\ pc[t] = "done"
        /\ Len(LinesOf(t)) = 10
        /\ LinesOf(t)[10] = "10th: n11 | Total: 636\n"

-----------------------------------------------------------------------------
(* C10: transport faults stay inside the API operations.                   *)

\* the request task t made last failed below HTTP, or its 200 body is no JSON
NetworkFailure(t) ==
    \/ resp[t].kind \in {"timeout", "connfail"}
    \/ resp[t].kind = "http" /\ resp[t].status = 200 /\ resp[t].json.t = "invalid"

\* C10: a timeout, a connection failure or a malformed JSON body is caught
\* inside the operation and comes back as a failure value (a dictionary with
\* success False, or None from fetch_user_rank); message_callback goes on to
\* its error reply.
C10_TransportContained ==
    \A t \in Tasks :
        NetworkFailure(t) =>
            /\ pc[t] = "done"
            /\ Len(TextsOf(t)) = 1
            /\ OpsOf(t)[Len(OpsOf(t))].op = "text"
            /\ IF CountOps(t, "get") = 2
               THEN /\ loc[t].group_data = [t |-> "none"]
                    /\ TextsOf(t)[1].body = Plain("Failed to fetch group data.")
               ELSE /\ DOMAIN loc[t].response = {"success", "message"}
                    /\ loc[t].response.success = FALSE
                    /\ TextsOf(t)[1].body = Plain(loc[t].response.message)

C10_Witness ==
    \E t \in Tasks :
        /\ NetworkFailure(t)
        /\ resp[t].kind = "timeout"
        /\ CountOps(t, "get") = 2
        /\ pc[t] = "done"
        /\ TextsOf(t)[1].body = Plain("Failed to fetch group data.")

-----------------------------------------------------------------------------
(* C11 -- C13: failures, the two requests of userrank, and retries.        *)

RecognisedBranches == {"user", "grouprank", "userrank", "alltime", "monthly", "help"}

\* C11: whatever the upstream answers to a recognised command,
\* message_callback never ends in an uncaught exception.
C11_NeverUncaughtFault ==
    \A t \in Tasks :
        loc[t].branch \in RecognisedBranches => pc[t] # "fault"

\* the text userrank sends when all went well starts with this line
RankingHead(t) == "**User Rankings for '" \o Str(Typed(loc[t].args)) \o "':**\n"

\* task t's group-list request has resolved and fetch_wigle_id returned a
\* failure
ResolveFailed(t) ==
    /\ loc[t].branch = "userrank"
    /\ CountOps(t, "resolved") >= 1
    /\ ~("success" \in DOMAIN loc[t].response /\ loc[t].response.success = TRUE)

\* task t's group-members request has resolved with a status other than 200
\* or with a transport fault
MembersFailed(t) ==
    /\ loc[t].branch = "userrank"
    /\ CountOps(t, "resolved") = 2
    /\ \/ resp[t].kind \in {"timeout", "connfail"}
       \/ resp[t].kind = "http" /\ resp[t].status # 200

\* C12: in userrank the group-members request is issued only once
\* fetch_wigle_id has returned a success; when it returns a failure, the
\* failure's message is the one text sent and there is no second request;
\* when the group-members request ends in a status other than 200 or a
\* transport fault, the one text sent is "Failed to fetch group data.";
\* in neither case is a ranking sent.
C12_UserRankSequencing ==
    \A t \in Tasks :
        loc[t].branch = "userrank" =>
            LET ops == OpsOf(t) IN
            /\ \A i \in 1..Len(ops) :
                 (ops[i].op = "get" /\ \E j \in 1..(i - 1) : ops[j].op = "get") =>
                     /\ ops[i - 1].op = "resolved"
                     /\ "success" \in DOMAIN loc[t].response
                     /\ loc[t].response.success = TRUE
                     /\ ops[i].url = loc[t].response.url
            /\ ResolveFailed(t) =>
                 /\ pc[t] = "done"
                 /\ CountOps(t, "get") = 1
                 /\ Len(TextsOf(t)) = 1
                 /\ TextsOf(t)[1].room = ev[t].room
                 /\ "message" \in DOMAIN loc[t].response
                 /\ TextsOf(t)[1].body = Plain(loc[t].response.message)
                 /\ (resp[t].kind = "http" /\ resp[t].status = 500)
                      => TextsOf(t)[1].body = Plain("HTTP error 500")
                 /\ TextsOf(t)[1].body.head # RankingHead(t)
            /\ MembersFailed(t) =>
                 /\ pc[t] = "done"
                 /\ CountOps(t, "get") = 2
                 /\ Len(TextsOf(t)) = 1
                 /\ TextsOf(t)[1].room = ev[t].room
                 /\ TextsOf(t)[1].body = Plain("Failed to fetch group data.")

C12_Witness ==
    \E t \in Tasks :
        /\ MembersFailed(t)
        /\ resp[t].kind = "http" /\ resp[t].status = 500
        /\ loc[t].response.groupId = "id-b"
        /\ pc[t] = "done"
        /\ TextsOf(t)[1].body = Plain("Failed to fetch group data.")

\* the requests task t has issued
GetsOf(t) == SelectSeq(log, LAMBDA e : e.task = t /\ e.op = "get")

\* C13: nothing is retried.  A call of message_callback issues one request
\* in the user, grouprank, alltime and monthly branches, one or two in
\* userrank (two only when fetch_wigle_id returned a success), none for help
\* and for the unknown-command text, whatever the upstream answers; and no
\* request is issued twice.
C13_NoRetry ==
    \A t \in Tasks :
        LET gets == GetsOf(t) IN
        /\ loc[t].branch \in {"user", "grouprank", "alltime", "monthly"} =>
             /\ Len(gets) <= 1
             /\ Ended(t) => Len(gets) = 1
        /\ loc[t].branch = "userrank" =>
             /\ Len(gets) <= 2
             /\ Ended(t) => Len(gets) \in {1, 2}
             /\ Len(gets) = 2 =>
                  /\ "success" \in DOMAIN loc[t].response
                  /\ loc[t].response.success = TRUE
        /\ loc[t].branch \in {"help", "unknown", "none"} => Len(gets) = 0
        /\ \A i, j \in 1..Len(gets) : i # j => gets[i].url # gets[j].url
        /\ CountOps(t, "resolved") <= Len(gets)

\* a request that failed, and the call ended with that one request
C13_Witness ==
    \E t \in Tasks :
        /\ loc[t].branch = "grouprank"
        /\ resp[t].kind = "timeout"
        /\ pc[t] = "done"
        /\ Len(GetsOf(t)) = 1
        /\ CountOps(t, "resolved") = 1

-----------------------------------------------------------------------------
(* C14: two handlers in flight at once.                                    *)

\* the reply handler t owes, computed from its own event and from the
\* response to its own last request alone
ReplyFromOwn(t) ==
    LET args == Tail(CommandParts(ev[t].body, CommandPrefix))
        r == resp[t]
    IN  IF loc[t].branch = "unknown" THEN Plain(UnknownText)
        ELSE IF loc[t].branch = "help" THEN Plain(HelpText)
        ELSE IF loc[t].branch = "user"
        THEN LET f == fetch_wigle_user_stats(args[1], loc[t].timestamp, r).ret
             IN  IF Succeeded(f) THEN create_user_message(f).ret
                 ELSE Plain(ErrorText(f, "Failed to fetch user stats."))
        ELSE IF loc[t].branch = "userrank" /\ Len(GetsOf(t)) = 1
        THEN Plain(ErrorText(fetch_wigle_id(JoinWords(args), r).ret,
                             "Failed to fetch group ID."))
        ELSE IF loc[t].branch = "userrank"
        THEN LET g == fetch_user_rank(GetsOf(t)[2].url, r).ret
             IN  IF ~Truthy(g) THEN Plain("Failed to fetch group data.")
                 ELSE format_user_rankings(
                          IF HasKey(g.v, "users") THEN g.v.users ELSE <<>>,
                          JoinWords(args)).ret
        ELSE IF loc[t].branch = "grouprank"
        THEN LET f == fetch_wigle_group_rank(r).ret
             IN  IF Succeeded(f) THEN format_group_rankings(f.groups).ret
                 ELSE Plain(ErrorText(f, "Failed to fetch group ranks."))
        ELSE IF loc[t].branch = "monthly"
        THEN LET f == fetch_wigle_month_rank(r).ret
             IN  IF Succeeded(f) THEN format_monthly_rankings(f.results).ret
                 ELSE Plain(ErrorText(f, "Failed to fetch monthly rankings."))
        ELSE LET f == fetch_wigle_alltime_rank(r).ret
             IN  IF Succeeded(f) THEN format_alltime_rankings(f.results).ret
                 ELSE Plain(ErrorText(f, "Failed to fetch user ranks."))

\* handler t has issued a request of its own for every await it has reached
OwnRequests(t) ==
    /\ (loc[t].branch \in FetchingBranches /\ pc[t] \in {"get", "done", "fault"})
         => Len(GetsOf(t)) >= 1
    /\ pc[t] = "get_members" => Len(GetsOf(t)) = 2
    /\ CountOps(t, "resolved") =
         Len(GetsOf(t)) - (IF pc[t] \in {"get", "get_members"} THEN 1 ELSE 0)

\* C14: with two handlers interleaved in any order, each issues its own
\* request (two '!user al' in flight make two requests), each sends exactly
\* one text, to the room of the message that started it, and the text is the
\* one its own response calls for.
C14_IndependentHandlers ==
    /\ \A t \in Tasks :
         /\ OwnRequests(t)
         /\ (Ended(t) /\ loc[t].branch \in RecognisedBranches) =>
              /\ Len(TextsOf(t)) = 1
              /\ TextsOf(t)[1].room = ev[t].room
              /\ TextsOf(t)[1].body = ReplyFromOwn(t)
    /\ (\A t \in Tasks : pc[t] = "get") =>
         Len(SelectSeq(log, LAMBDA e : e.op = "get")) = Cardinality(Tasks)

\* The part of C14 that the code keeps: the same, for the handlers that
\* return normally.
C14_IndependentNormalReturns ==
    /\ \A t \in Tasks :
         /\ OwnRequests(t)
         /\ (pc[t] = "done" /\ loc[t].branch \in RecognisedBranches) =>
              /\ Len(TextsOf(t)) = 1
              /\ TextsOf(t)[1].room = ev[t].room
              /\ TextsOf(t)[1].body = ReplyFromOwn(t)
    /\ (\A t \in Tasks : pc[t] = "get") =>
         Len(SelectSeq(log, LAMBDA e : e.op = "get")) = Cardinality(Tasks)

\* two '!user al' in flight in one room, then answered differently
C14_TwoInFlight ==
    /\ \A t \in Tasks : ev[t].body = CommandPrefix \o V_user \o SP \o W_al
    /\ ev[1].room = ev[2].room
    /\ pc[1] = "done" /\ pc[2] = "done"
    /\ \E i \in 1..(Len(log) - 1) :
         /\ log[i].op = "get" /\ log[i + 1].op = "get"
         /\ log[i].task # log[i + 1].task
         /\ log[i].url = log[i + 1].url
    /\ TextsOf(1)[1].body # TextsOf(2)[1].body

-----------------------------------------------------------------------------
(* C15: termination.                                                       *)

Suspended(t) == pc[t] \in {"typing", "get", "get_members"}

\* C15: every handler that has started eventually ends, whether or not the
\* upstream ever answers; a request that the total timeout ends comes back
\* as a failure value, and the handler then sends its one reply.
C15_HandlerTerminates ==
    /\ \A t \in Tasks : Suspended(t) ~> Ended(t)
    /\ [](\A t \in Tasks :
            resp[t].kind = "timeout" =>
                /\ pc[t] = "done"
                /\ Len(TextsOf(t)) = 1
                /\ OpsOf(t)[Len(OpsOf(t))].op = "text")

\* the monthly request timed out and the handler has replied
C15_Witness ==
    \E t \in Tasks :
        /\ loc[t].branch = "monthly"
        /\ resp[t].kind = "timeout"
        /\ loc[t].response = Failure("")
        /\ pc[t] = "done"
        /\ Len(TextsOf(t)) = 1

-----------------------------------------------------------------------------
(* C16 -- C17: fetch_wigle_id against fetch_wigle_group_rank, and the      *)
(* request that follows it.                                                *)

\* task t's group-list request has resolved and nothing has resolved since:
\* resp[t] is the answer to it, loc[t].response what fetch_wigle_id returned
ListResolved(t) ==
    /\ loc[t].branch = "userrank"
    /\ CountOps(t, "resolved") = 1

\* what fetch_wigle_group_rank returns for the answer task t's group-list
\* request got
ListFor(t) == fetch_wigle_group_rank(resp[t]).ret

NoGroupNamedText(t) == "No group named '" \o Str(Typed(loc[t].args)) \o "' found."

\* C16: on every answer for which fetch_wigle_group_rank returns an error,
\* fetch_wigle_id returns that error with that message; and it reports
\* "No group named ..." only for an answer on which fetch_wigle_group_rank
\* succeeds.
C16_ResolveAsFetchThenMatch ==
    \A t \in Tasks :
        ListResolved(t) =>
            /\ ~Succeeded(ListFor(t)) => loc[t].response = ListFor(t)
            /\ ( /\ "message" \in DOMAIN loc[t].response
                 /\ loc[t].response.message = NoGroupNamedText(t) )
               => Succeeded(ListFor(t))

\* The part of C16 that the code keeps: the two operations return the same
\* error for a status other than 200, for a transport fault and for a body
\* that is no JSON object.
C16_SameErrorBelowTheBody ==
    \A t \in Tasks :
        (ListResolved(t) /\ ~GotObject(t)) =>
            /\ ~Succeeded(ListFor(t))
            /\ loc[t].response = ListFor(t)

\* a group list refused by the upstream, with the upstream's reason
C16_Refused ==
    \E t \in Tasks :
        /\ ListResolved(t) /\ GotObject(t)
        /\ resp[t].json.v = [success |-> FALSE, message |-> "too many queries today"]
        /\ pc[t] = "done"
        /\ TextsOf(t)[1].body = Plain("too many queries today")
        /\ ListFor(t) = Failure("No group data available.")

\* the positions of the groups whose name is the typed name up to letter case
Matches(t, groups) ==
    { i \in 1..Len(groups) : CaseEq(groups[i].groupName, Typed(loc[t].args)) }

\* the group list task t got came with success and complete entries, at
\* least one of them of the typed name
GroupFound(t) ==
    /\ ListResolved(t)
    /\ GotObject(t)
    /\ "success" \in DOMAIN resp[t].json.v /\ resp[t].json.v.success = TRUE
    /\ "groups" \in DOMAIN resp[t].json.v
    /\ WellFormed(resp[t].json.v.groups, {"groupName", "groupId"})
    /\ Matches(t, resp[t].json.v.groups) # {}

\* C17: when the group list holds a group of the typed name (up to letter
\* case), fetch_wigle_id returns the id of the first such group in list
\* order, and the second request is a GET of
\* group/groupMembers?groupid=<that id>; the ranking is made of the answer to
\* that request, under a first line that names the group as the user typed it.
C17_FirstMatchThenMembers ==
    \A t \in Tasks :
        /\ GroupFound(t) =>
             LET groups == resp[t].json.v.groups
                 first == CHOOSE i \in Matches(t, groups) :
                              \A j \in Matches(t, groups) : i <= j
             IN  /\ pc[t] = "get_members"
                 /\ loc[t].response.groupId = groups[first].groupId
                 /\ Len(GetsOf(t)) = 2
                 /\ GetsOf(t)[2].url =
                      "https://api.wigle.net/api/v2/group/groupMembers?groupid="
                          \o groups[first].groupId
                 /\ GetsOf(t)[2].headers = GetsOf(t)[1].headers
        /\ RankedMembers(t) =>
             LET users == resp[t].json.v.users
                 K == Kept(users, Unlocked)
             IN  /\ pc[t] = "done"
                 /\ GetsOf(t)[2].url =
                      "https://api.wigle.net/api/v2/group/groupMembers?groupid="
                          \o loc[t].response.groupId
                 /\ Len(TextsOf(t)) = 1
                 /\ TextsOf(t)[1].body.head =
                      "**User Rankings for '" \o Str(Typed(loc[t].args)) \o "':**\n"
                 /\ Len(LinesOf(t)) = Min(10, Cardinality(K))
                 /\ \A k \in 1..Len(LinesOf(t)) :
                      LinesOf(t)[k] =
                        Line(k, users[Nth(K, k)].username, users[Nth(K, k)].discovered)

\* two groups of the typed name, the first of them chosen
C17_Witness ==
    \E t \in Tasks :
        /\ GroupFound(t)
        /\ loc[t].args = <<W_al, W_bo>>
        /\ Len(resp[t].json.v.groups) = 2
        /\ resp[t].json.v.groups[1].groupId = "id-c"
        /\ resp[t].json.v.groups[2].groupId = "id-b"
        /\ loc[t].response.groupId = "id-c"
        /\ GetsOf(t)[2].url = "https://api.wigle.net/api/v2/group/groupMembers?groupid=id-c"

\* the ranking that follows, named as typed and not as the upstream names it
C17_Labelled ==
    \E t \in Tasks :
        /\ RankedMembers(t)
        /\ loc[t].args = <<W_al, W_bo>>
        /\ loc[t].response.groupId = "id-c"
        /\ TextsOf(t)[1].body.head = "**User Rankings for 'al bo':**\n"
        /\ Len(LinesOf(t)) = 2

-----------------------------------------------------------------------------
(* C18: nothing is carried from one call to the next.                      *)

\* the bot as WigleBot.__init__ leaves it
FreshBot ==
    [user_id |-> "@wiglebot:hs", command_prefix |-> <<"!">>, wigle_api_key |-> "APIKEY",
     session |-> [closed |-> FALSE, timeout |-> [total |-> 60]]]

\* the branch the body of task t's event selects
OwnBranch(t) ==
    LET parts == CommandParts(ev[t].body, <<"!">>)
    IN  Dispatch(Lower(parts[1]), Tail(parts))

\* the outbound operations of a finished call are those its event, the clock
\* and the answers to its requests determine
DeterminedByInputs(t) ==
    LET ops == OpsOf(t)
        args == Tail(CommandParts(ev[t].body, <<"!">>))
    IN  /\ loc[t].branch = OwnBranch(t)
        /\ Len(TextsOf(t)) = 1
        /\ ops[Len(ops)] = TextOp(t, ev[t].room, ReplyFromOwn(t))
        /\ OwnBranch(t) = "unknown" => Len(ops) = 1
        /\ OwnBranch(t) # "unknown" =>
             ops[1] = [task |-> t, op |-> "typing", room |-> ev[t].room, timeout |-> 3000]
        /\ OwnBranch(t) = "help" => Len(ops) = 2
        /\ OwnBranch(t) \in FetchingBranches =>
             /\ Len(ops) = 2 + 2 * Len(GetsOf(t))
             /\ ops[2] = [task |-> t, op |-> "get",
                          url |-> FirstUrl(OwnBranch(t), [args |-> args], loc[t].timestamp),
                          headers |-> [Authorization |-> "Basic APIKEY",
                                       CacheControl |-> "no-cache"]]
             /\ ops[3] = ResolvedOp(t)
             /\ Len(GetsOf(t)) = 2 =>
                  /\ ops[4] = [ops[2] EXCEPT !.url = loc[t].response.url]
                  /\ ops[5] = ResolvedOp(t)

\* C18: no step changes the bot's own fields (identity, prefix, API key,
\* session), and whatever calls came before, a call that returns has issued
\* the operations and sent the reply that its message and the answers to its
\* requests determine.
C18_Stateless ==
    /\ [][bot' = bot]_vars
    /\ [](bot = FreshBot)
    /\ [](\A t \in Tasks :
            (pc[t] = "done" /\ loc[t].command_parts # <<>>) => DeterminedByInputs(t))

\* the same message answered the same way after an earlier call had failed
C18_Witness ==
    \E t \in Tasks :
        /\ calls >= 1
        /\ pc[t] = "done"
        /\ ev[t].body = CommandPrefix \o V_user \o SP \o W_al
        /\ resp[t].kind = "http" /\ resp[t].status = 404
        /\ bot = FreshBot
        /\ TextsOf(t)[1].body = Plain("User not found.")

-----------------------------------------------------------------------------
(* C19: parsing and dispatch on a body with no first token.                *)

\* the words of the body of task t's event after the prefix
OwnParts(t) == CommandParts(ev[t].body, bot.command_prefix)

\* the body holds no recognised verb: no token at all, or a first token that
\* selects no branch
NoRecognisedVerb(t) == OwnParts(t) = <<>> \/ OwnBranch(t) = "unknown"

\* C19: a gated-in message whose body holds no recognised verb, the prefix
\* alone and the prefix followed only by whitespace included, is parsed to a
\* verb and the call returns having sent exactly one text, the
\* unknown-command text.
C19_ParsingTotal ==
    \A t \in Tasks :
        (Ended(t) /\ GatedIn(ev[t], bot) /\ NoRecognisedVerb(t)) =>
            /\ pc[t] = "done"
            /\ loc[t].command_parts # <<>>
            /\ OpsOf(t) = <<TextOp(t, ev[t].room, Plain(UnknownText))>>

\* the same statement for the bodies that hold a first token
C19_TotalOnAFirstToken ==
    \A t \in Tasks :
        (Ended(t) /\ GatedIn(ev[t], bot) /\ OwnParts(t) # <<>> /\ OwnBranch(t) = "unknown") =>
            /\ pc[t] = "done"
            /\ loc[t].command_parts = OwnParts(t)
            /\ OpsOf(t) = <<TextOp(t, ev[t].room, Plain(UnknownText))>>

\* line 78 has raised IndexError on the prefix followed only by whitespace
C19_Faulted ==
    \E t \in Tasks :
        /\ pc[t] = "fault"
        /\ ev[t].body = CommandPrefix \o SP \o SP
        /\ ev[t].sender # BotUserId
        /\ OpsOf(t) = <<>>

-----------------------------------------------------------------------------
(* C20: the replies are non-empty.                                         *)

\* C20: every text sent in reply to a command is a non-empty string; a
\* request that fails with a transport fault whose description is empty is
\* answered with a non-empty error line.
C20_NonEmptyReplies ==
    \A i \in 1..Len(log) :
        log[i].op = "text" => log[i].body.head # ""

\* the texts that do not report a timed-out request are non-empty
C20_NonEmptyUnlessTimedOut ==
    \A t \in Tasks :
        (pc[t] = "done" /\ Len(TextsOf(t)) = 1 /\ TextsOf(t)[1].body.head = "") =>
            /\ resp[t].kind = "timeout"
            /\ Len(GetsOf(t)) = 1

\* a timed-out request of the user branch answered with an empty text
C20_EmptyReply ==
    \E t \in Tasks :
        /\ pc[t] = "done"
        /\ loc[t].branch = "user"
        /\ resp[t].kind = "timeout"
        /\ TextsOf(t) = <<TextOp(t, ev[t].room, Plain(""))>>

====
